---- MODULE Spec2Model ----
(***************************************************************************)
(* Model of the abyss front end: the marker store (stores/ritual.ts), the  *)
(* marker binding code of AbyssCanvas.vue and the optimization job         *)
(* orchestration of App.vue (src/unnamed/part_000) over services/api.ts.   *)
(*                                                                         *)
(* JavaScript runs one callback at a time, so every action below is one    *)
(* whole event handler or one whole continuation of an async function     *)
(* (the code between two awaits).                                          *)
(***************************************************************************)
EXTENDS Integers, Sequences, FiniteSets, TLC

\* ---------------------------------------------------------------- bounds
MaxRuns == 2        \* accepted runs of onRunOptimization (= submit calls)
MaxMarkers == 2     \* marker ids issued by genId

\* ------------------------------------------------------- values and inputs
\* A nullable value is a sequence of length at most one: null is <<>>.
Null == <<>>
Some(x) == <<x>>

Runs == 1..MaxRuns
\* the job_id the server answers the r-th submit call with
JobIdOf(r) == <<"job", r>>
\* result payloads the server may send (byte sequences)
ResultBytes == {<<1, 2>>, <<3>>}
\* what a failed submit call rejects with: the Error thrown for a non-ok response
SubmitErrors == {[isError |-> TRUE, message |-> "Submit failed: 500"]}
\* data.message of an error event: absent ("") or present
StreamMessages == {"", "solver diverged"}
\* the bytes of the STL files the user may load
StlFiles == {"stl"}
\* hit.point and hit.face.normal of a ray/mesh intersection
SurfaceHits == {[point |-> "p", normal |-> "n"]}
\* progress payloads the server may send
ProgressEvents ==
    {[iteration |-> i, max_iterations |-> 100, objective |-> 10 - i,
      volume_fraction |-> 30, change |-> i, elapsed_seconds |-> 2 * i]
        : i \in {5, 6}}

VARIABLES
    mode,            \* store.mode
    fixedSupports,   \* store.fixedSupports
    loadVectors,     \* store.loadVectors
    issuedIds,       \* history: the ids genId has returned, in order
    nextId,          \* the counter of genId
    stlArrayBuffer,  \* store.stlArrayBuffer
    volumeFraction,  \* store.volumeFraction, in hundredths
    solverParams,    \* store.solverParams
    optimization,    \* store.optimization
    markerObjects,   \* AbyssCanvas: Map marker id -> render handle
    markerGroup,     \* AbyssCanvas: children of the marker group
    loadedMesh,      \* AbyssCanvas: the base mesh
    disposed,        \* history: the marker ids whose handle disposeObject was called on
    placed,          \* history: the ids placed on the mesh now loaded, less those removed
    resultMesh,      \* AbyssCanvas: the displayed result
    stopStream,      \* App: the cleanup closure of the last stream opened
    net,             \* per accepted run: its submit call (with the params of the
                     \* request while it is in flight), EventSource and fetch
    submitCalls,     \* number of submitOptimization calls made
    displayCalls,    \* per run: the buffers handed to displayResult
    cancelledFrom,   \* the job state the last cancel found, "none" once a run or reset followed
    last             \* the handler or callback that ran last

vars == <<mode, fixedSupports, loadVectors, nextId, issuedIds, stlArrayBuffer,
          volumeFraction, solverParams, optimization,
          markerObjects, markerGroup, loadedMesh, disposed, placed, resultMesh,
          stopStream, net,
          submitCalls, displayCalls, cancelledFrom, last>>

storeVars == <<mode, fixedSupports, loadVectors, nextId, issuedIds,
               volumeFraction, solverParams>>
canvasVars == <<markerObjects, markerGroup, loadedMesh, disposed, placed>>
jobVars == <<optimization, stopStream, net, submitCalls, displayCalls, resultMesh,
            cancelledFrom>>

\* ------------------------------------------------------------ the store
\* genId reading a counter that is always 0
genId_IgnoresCounter(n) == <<"marker", 0>>

\* genId(): `marker-${nextId++}`, n the value of nextId at the call
genId(n) == <<"marker", n>>

\* store.resetOptimization()
resetOptimization ==
    [isRunning |-> FALSE, isComplete |-> FALSE, jobId |-> Null,
     progress |-> Null, error |-> Null]

RemoveAt(s, i) == SubSeq(s, 1, i - 1) \o SubSeq(s, i + 1, Len(s))

\* Array.prototype.findIndex: the first index whose element has the id, 0 if none
FindIndex(s, id) ==
    IF \E i \in 1..Len(s) : s[i].id = id
    THEN CHOOSE i \in 1..Len(s) :
             s[i].id = id /\ \A j \in 1..(i - 1) : s[j].id # id
    ELSE 0

\* store.addFixedSupport(position, normal); the id returned is genId(nextId)
addFixedSupport(position, normal) ==
    /\ fixedSupports' =
           Append(fixedSupports,
                  [id |-> genId(nextId), position |-> position, normal |-> normal])
    /\ nextId' = nextId + 1
    /\ issuedIds' = Append(issuedIds, genId(nextId))
    /\ UNCHANGED loadVectors

\* store.addLoadVector(position, direction, magnitude); the id returned is
\* genId(nextId)
addLoadVector(position, direction, magnitude) ==
    /\ loadVectors' =
           Append(loadVectors,
                  [id |-> genId(nextId), position |-> position,
                   direction |-> direction, magnitude |-> magnitude])
    /\ nextId' = nextId + 1
    /\ issuedIds' = Append(issuedIds, genId(nextId))
    /\ UNCHANGED fixedSupports

\* store.clearAll()
clearAll ==
    /\ fixedSupports' = <<>>
    /\ loadVectors' = <<>>

\* removeMarker without its tests of the index found: splice(-1, 1) takes the
\* last element of the list
removeMarker_NoFoundTest(fs, lv, id) ==
    IF FindIndex(fs, id) # 0
    THEN <<RemoveAt(fs, FindIndex(fs, id)), lv>>
    ELSE IF Len(fs) > 0
         THEN <<RemoveAt(fs, Len(fs)), lv>>
         ELSE IF FindIndex(lv, id) # 0
              THEN <<fs, RemoveAt(lv, FindIndex(lv, id))>>
              ELSE <<fs, lv>>

\* removeMarker with splice(fi) and splice(li) in place of splice(fi, 1) and
\* splice(li, 1): the list is cut from the index found to its end
removeMarker_SplicesToEnd(fs, lv, id) ==
    IF FindIndex(fs, id) # 0
    THEN <<SubSeq(fs, 1, FindIndex(fs, id) - 1), lv>>
    ELSE IF FindIndex(lv, id) # 0
         THEN <<fs, SubSeq(lv, 1, FindIndex(lv, id) - 1)>>
         ELSE <<fs, lv>>

\* store.removeMarker(id): the pair of lists afterwards
removeMarker(fs, lv, id) ==
    IF FindIndex(fs, id) # 0
    THEN <<RemoveAt(fs, FindIndex(fs, id)), lv>>
    ELSE IF FindIndex(lv, id) # 0
         THEN <<fs, RemoveAt(lv, FindIndex(lv, id))>>
         ELSE <<fs, lv>>

\* ------------------------------------------------------------ App.vue
\* canRun without its test of isRunning
canRun_IgnoresRunning ==
    /\ stlArrayBuffer # Null
    /\ Len(fixedSupports) > 0
    /\ Len(loadVectors) > 0

\* canRun without its test of the load vectors
canRun_IgnoresLoads ==
    /\ stlArrayBuffer # Null
    /\ Len(fixedSupports) > 0
    /\ ~optimization.isRunning

canRun ==
    /\ stlArrayBuffer # Null
    /\ Len(fixedSupports) > 0
    /\ Len(loadVectors) > 0
    /\ ~optimization.isRunning

\* The job state the template renders from the fields of store.optimization:
\* the Cancel button while isRunning, the error line while error is set, the
\* result controls while isComplete.
JobState ==
    IF optimization.isRunning
    THEN IF optimization.jobId = Null THEN "Submitting" ELSE "Running"
    ELSE IF optimization.isComplete
         THEN IF optimization.error = Null THEN "Complete" ELSE "CompleteWithError"
         ELSE IF optimization.error = Null
              THEN "Idle"
              ELSE IF optimization.error = Some("Cancelled") THEN "Cancelled" ELSE "Error"

\* onProgress with objective and change taken from each other's field
ToProgress_SwapsFields(data) ==
    [iteration |-> data.iteration, maxIterations |-> data.max_iterations,
     objective |-> data.change, volumeFraction |-> data.volume_fraction,
     change |-> data.objective, elapsedSeconds |-> data.elapsed_seconds]

\* the ProgressData -> store.optimization.progress conversion of onProgress
ToProgress(data) ==
    [iteration |-> data.iteration, maxIterations |-> data.max_iterations,
     objective |-> data.objective, volumeFraction |-> data.volume_fraction,
     change |-> data.change, elapsedSeconds |-> data.elapsed_seconds]

NoCall ==
    [submit |-> "none", job_id |-> Null, es |-> "none", fetch |-> "none",
     result |-> Null, params |-> Null]

\* store.solverParams as the store creates it
DefaultSolverParams ==
    [nelx |-> 30, nely |-> 10, nelz |-> 5, penal |-> 3, rmin |-> 2,
     maxIterations |-> 100]

\* { x: v.x, y: v.y, z: v.z }: the three components read off a vector
Xyz(v) == [x |-> <<v, "x">>, y |-> <<v, "y">>, z |-> <<v, "z">>]

\* the run parameters with the solver values the store starts with in place of
\* the current ones
RunParams_InitialConfig ==
    LET support(s) == [position |-> Xyz(s.position), normal |-> Xyz(s.normal)]
        load(l) == [position |-> Xyz(l.position), direction |-> Xyz(l.direction),
                    magnitude |-> l.magnitude]
    IN  [fixed_supports |-> [k \in 1..Len(fixedSupports) |-> support(fixedSupports[k])],
         load_vectors |-> [k \in 1..Len(loadVectors) |-> load(loadVectors[k])],
         volume_fraction |-> 30,
         nelx |-> DefaultSolverParams.nelx,
         nely |-> DefaultSolverParams.nely,
         nelz |-> DefaultSolverParams.nelz,
         penal |-> DefaultSolverParams.penal,
         rmin |-> DefaultSolverParams.rmin,
         max_iterations |-> DefaultSolverParams.maxIterations]

\* the params object onRunOptimization builds from the store
RunParams ==
    LET support(s) == [position |-> Xyz(s.position), normal |-> Xyz(s.normal)]
        load(l) == [position |-> Xyz(l.position), direction |-> Xyz(l.direction),
                    magnitude |-> l.magnitude]
    IN  [fixed_supports |-> [k \in 1..Len(fixedSupports) |-> support(fixedSupports[k])],
         load_vectors |-> [k \in 1..Len(loadVectors) |-> load(loadVectors[k])],
         volume_fraction |-> volumeFraction,
         nelx |-> solverParams.nelx,
         nely |-> solverParams.nely,
         nelz |-> solverParams.nelz,
         penal |-> solverParams.penal,
         rmin |-> solverParams.rmin,
         max_iterations |-> solverParams.maxIterations]

\* JSON.stringify(params) in submitOptimization: the text of a tree of plain
\* objects, arrays, numbers and strings, written here as the tree with its kind
JSONStringify(value) == [json |-> value]

\* what is recorded of a step: the handler or callback, the run it belongs to (0:
\* none), whether it took effect, and the job state it found
Step(op, run, accepted) ==
    [op |-> op, run |-> run, accepted |-> accepted, from |-> JobState]

Init ==
    /\ mode = "fixed"
    /\ fixedSupports = <<>>
    /\ loadVectors = <<>>
    /\ nextId = 0
    /\ issuedIds = <<>>
    /\ stlArrayBuffer = Null
    /\ volumeFraction = 30
    /\ solverParams = DefaultSolverParams
    /\ optimization = resetOptimization
    /\ markerObjects = <<>>
    /\ markerGroup = {}
    /\ loadedMesh = Null
    /\ disposed = {}
    /\ placed = {}
    /\ resultMesh = Null
    /\ stopStream = Null
    /\ net = [r \in Runs |-> NoCall]
    /\ submitCalls = 0
    /\ displayCalls = [r \in Runs |-> <<>>]
    /\ cancelledFrom = "none"
    /\ last = Step("init", 0, TRUE)


\* ------------------------------------------------------ AbyssCanvas.vue
Handle(id, glyph) == [markerId |-> id, glyph |-> glyph]

Without(f, k) == [x \in (DOMAIN f) \ {k} |-> f[x]]

\* normal.transformDirection(loadedMesh.matrixWorld): the mesh is never moved,
\* rotated or scaled (loadSTL transforms the geometry), so matrixWorld is the
\* identity and the unit face normal is returned as it is.
TransformDirection(n) == n

\* store.setMode(m)
SetMode(m) ==
    /\ mode' = m
    /\ last' = Step("setMode", 0, TRUE)
    /\ UNCHANGED <<fixedSupports, loadVectors, nextId, issuedIds, stlArrayBuffer>>
    /\ UNCHANGED <<volumeFraction, solverParams>>
    /\ UNCHANGED canvasVars
    /\ UNCHANGED jobVars

\* the marker branch of onClick without its markerObjects.delete(markerId)
ClickMarker_KeepsBinding(obj) ==
    LET markerId == obj.markerId
        lists == removeMarker(fixedSupports, loadVectors, markerId)
    IN  /\ fixedSupports' = lists[1]
        /\ loadVectors' = lists[2]
        /\ markerGroup' = markerGroup \ {obj}
        /\ disposed' = disposed \cup {obj.markerId}
        /\ markerObjects' = markerObjects
        /\ placed' = placed \ {obj.markerId}
        /\ UNCHANGED <<volumeFraction, solverParams, mode, nextId, issuedIds, loadedMesh>>

\* the marker branch of onClick without its disposeObject(obj)
ClickMarker_NoDispose(obj) ==
    LET markerId == obj.markerId
        lists == removeMarker(fixedSupports, loadVectors, markerId)
    IN  /\ fixedSupports' = lists[1]
        /\ loadVectors' = lists[2]
        /\ markerGroup' = markerGroup \ {obj}
        /\ disposed' = disposed
        /\ markerObjects' = Without(markerObjects, markerId)
        /\ placed' = placed \ {obj.markerId}
        /\ UNCHANGED <<volumeFraction, solverParams, mode, nextId, issuedIds, loadedMesh>>

\* onClick, marker branch: markerHits[0] belongs to the handle obj
ClickMarker(obj) ==
    LET markerId == obj.markerId
        lists == removeMarker(fixedSupports, loadVectors, markerId)
    IN  /\ fixedSupports' = lists[1]
        /\ loadVectors' = lists[2]
        /\ markerGroup' = markerGroup \ {obj}
        /\ disposed' = disposed \cup {obj.markerId}
        /\ markerObjects' = Without(markerObjects, markerId)
        /\ placed' = placed \ {obj.markerId}
        /\ UNCHANGED <<volumeFraction, solverParams, mode, nextId, issuedIds, loadedMesh>>

\* spawnTentacle(position, normal)
spawnTentacle(position, normal) ==
    LET id == genId(nextId)
    IN  /\ addFixedSupport(position, normal)
        /\ placed' = placed \cup {id}
        /\ markerGroup' = markerGroup \cup {Handle(id, "tentacle")}
        /\ markerObjects' = (id :> Handle(id, "tentacle")) @@ markerObjects

\* spawnVoidEye(position, normal): magnitude takes its default 1.0
spawnVoidEye(position, normal) ==
    LET id == genId(nextId)
    IN  /\ addLoadVector(position, normal, 1)
        /\ placed' = placed \cup {id}
        /\ markerGroup' = markerGroup \cup {Handle(id, "voidEye")}
        /\ markerObjects' = (id :> Handle(id, "voidEye")) @@ markerObjects

\* the surface branch of onClick without its test of store.mode
ClickSurface_IgnoresMode(hit) ==
    /\ nextId < MaxMarkers
    /\ spawnTentacle(hit.point, TransformDirection(hit.normal))
    /\ UNCHANGED <<volumeFraction, solverParams, mode, loadedMesh, disposed>>

\* onClick, surface branch: meshHits[0] is hit
ClickSurface(hit) ==
    /\ nextId < MaxMarkers
    /\ IF mode = "fixed"
       THEN spawnTentacle(hit.point, TransformDirection(hit.normal))
       ELSE spawnVoidEye(hit.point, TransformDirection(hit.normal))
    /\ UNCHANGED <<volumeFraction, solverParams, mode, loadedMesh, disposed>>

ClickNothing ==
    /\ UNCHANGED storeVars
    /\ UNCHANGED canvasVars

\* what is recorded of a click: what it did (a marker created, a handle
\* taken out of the group, or nothing) and what its ray intersected
ClickStep(markerHits, meshHits) ==
    [op |-> IF nextId' # nextId THEN "clickSurface"
            ELSE IF markerGroup' # markerGroup THEN "clickMarker"
            ELSE "clickNothing",
     run |-> 0,
     accepted |-> (nextId' # nextId \/ markerGroup' # markerGroup),
     from |-> JobState,
     markerHits |-> markerHits,
     meshHits |-> meshHits]

\* onClick with the raycast against the mesh consulted before the markers
OnClick_SurfaceFirst(markerHits, meshHits) ==
    /\ IF loadedMesh = Null
       THEN ClickNothing
       ELSE IF meshHits # Null
            THEN ClickSurface(meshHits[1])
            ELSE IF markerHits = Null
                 THEN ClickNothing
                 ELSE ClickMarker(markerHits[1])
    /\ last' = ClickStep(markerHits, meshHits)
    /\ UNCHANGED stlArrayBuffer
    /\ UNCHANGED jobVars

\* onClick without its first line, if (!loadedMesh) return
OnClick_NoMeshGuard(markerHits, meshHits) ==
    /\ IF markerHits # Null
       THEN ClickMarker(markerHits[1])
       ELSE IF meshHits = Null
            THEN ClickNothing
            ELSE ClickSurface(meshHits[1])
    /\ last' = ClickStep(markerHits, meshHits)
    /\ UNCHANGED stlArrayBuffer
    /\ UNCHANGED jobVars

\* onClick without the return that ends its marker branch: a click that removed
\* a marker goes on to the raycast against the mesh
OnClick_FallsThrough(markerHits, meshHits) ==
    /\ IF loadedMesh = Null
       THEN ClickNothing
       ELSE IF markerHits # Null
            THEN IF meshHits = Null \/ nextId >= MaxMarkers
                 THEN ClickMarker(markerHits[1])
                 ELSE LET obj == markerHits[1]
                          lists == removeMarker(fixedSupports, loadVectors, obj.markerId)
                          id == genId(nextId)
                          hit == meshHits[1]
                          glyph == IF mode = "fixed" THEN "tentacle" ELSE "voidEye"
                      IN  /\ fixedSupports' =
                                 IF mode = "fixed"
                                 THEN Append(lists[1],
                                             [id |-> id, position |-> hit.point,
                                              normal |-> TransformDirection(hit.normal)])
                                 ELSE lists[1]
                          /\ loadVectors' =
                                 IF mode = "fixed"
                                 THEN lists[2]
                                 ELSE Append(lists[2],
                                             [id |-> id, position |-> hit.point,
                                              direction |-> TransformDirection(hit.normal),
                                              magnitude |-> 1])
                          /\ nextId' = nextId + 1
                          /\ issuedIds' = Append(issuedIds, id)
                          /\ markerGroup' = (markerGroup \ {obj}) \cup {Handle(id, glyph)}
                          /\ markerObjects' =
                                 (id :> Handle(id, glyph)) @@ Without(markerObjects, obj.markerId)
                          /\ disposed' = disposed \cup {obj.markerId}
                          /\ placed' = (placed \ {obj.markerId}) \cup {id}
                          /\ UNCHANGED <<volumeFraction, solverParams, mode, loadedMesh>>
            ELSE IF meshHits = Null
                 THEN ClickNothing
                 ELSE ClickSurface(meshHits[1])
    /\ last' = ClickStep(markerHits, meshHits)
    /\ UNCHANGED stlArrayBuffer
    /\ UNCHANGED jobVars

\* onClick with a call of store.resetOptimization() added
OnClick_ResetsJob(markerHits, meshHits) ==
    /\ IF loadedMesh = Null
       THEN ClickNothing
       ELSE IF markerHits # Null
            THEN ClickMarker(markerHits[1])
            ELSE IF meshHits = Null
                 THEN ClickNothing
                 ELSE ClickSurface(meshHits[1])
    /\ last' = ClickStep(markerHits, meshHits)
    /\ optimization' = resetOptimization
    /\ UNCHANGED stlArrayBuffer
    /\ UNCHANGED <<stopStream, net, submitCalls, displayCalls, resultMesh, cancelledFrom>>

\* onClick(event): markerHits and meshHits are the two raycasts of the click,
\* each empty (Null) or with its closest intersection first.
OnClick(markerHits, meshHits) ==
    /\ IF loadedMesh = Null
       THEN ClickNothing
       ELSE IF markerHits # Null
            THEN ClickMarker(markerHits[1])
            ELSE IF meshHits = Null
                 THEN ClickNothing
                 ELSE ClickSurface(meshHits[1])
    /\ last' = ClickStep(markerHits, meshHits)
    /\ UNCHANGED stlArrayBuffer
    /\ UNCHANGED jobVars

\* clearMarkers() without its markerGroup.remove(obj)
clearMarkers_LeavesGroup ==
    /\ markerGroup' = markerGroup
    /\ disposed' = disposed \cup {markerObjects[k].markerId : k \in DOMAIN markerObjects}
    /\ markerObjects' = <<>>
    /\ clearAll

\* clearMarkers()
clearMarkers ==
    /\ markerGroup' = markerGroup \ {markerObjects[k] : k \in DOMAIN markerObjects}
    /\ disposed' = disposed \cup {markerObjects[k].markerId : k \in DOMAIN markerObjects}
    /\ markerObjects' = <<>>
    /\ clearAll

\* onClearAll (the Clear All button is disabled while there is no marker)
OnClearAll ==
    /\ Len(fixedSupports) + Len(loadVectors) # 0
    /\ clearMarkers
    /\ placed' = placed \ DOMAIN markerObjects
    /\ last' = Step("clearAll", 0, TRUE)
    /\ UNCHANGED <<volumeFraction, solverParams, mode, nextId, issuedIds, stlArrayBuffer, loadedMesh>>
    /\ UNCHANGED jobVars

\* reader.onload without its call of clearMarkers()
LoadSTL_KeepsMarkers(arrayBuffer) ==
    /\ stlArrayBuffer' = Some(arrayBuffer)
    /\ loadedMesh' = Some(arrayBuffer)
    /\ placed' = {}
    /\ last' = [op |-> "loadSTL", run |-> 0, accepted |-> TRUE, from |-> JobState,
                found |-> DOMAIN markerObjects]
    /\ UNCHANGED <<volumeFraction, solverParams, mode, fixedSupports, loadVectors, nextId, issuedIds>>
    /\ UNCHANGED <<markerObjects, markerGroup, disposed>>
    /\ UNCHANGED jobVars

\* loadSTL(file): the reader.onload callback, arrayBuffer the bytes of the file
LoadSTL(arrayBuffer) ==
    /\ stlArrayBuffer' = Some(arrayBuffer)
    /\ loadedMesh' = Some(arrayBuffer)
    /\ clearMarkers
    /\ placed' = {}
    /\ last' = [op |-> "loadSTL", run |-> 0, accepted |-> TRUE, from |-> JobState,
                found |-> DOMAIN markerObjects]
    /\ UNCHANGED <<volumeFraction, solverParams, mode, nextId, issuedIds>>
    /\ UNCHANGED jobVars

\* ------------------------------------------------- the optimization job
\* onRunOptimization without its call of store.resetOptimization()
OnRunOptimization_NoReset ==
    IF ~canRun \/ stlArrayBuffer = Null
    THEN /\ last' = Step("run", 0, FALSE)
         /\ UNCHANGED <<storeVars, stlArrayBuffer, canvasVars, jobVars>>
    ELSE LET r == submitCalls + 1
         IN  /\ submitCalls < MaxRuns
             /\ optimization' = [optimization EXCEPT !.isRunning = TRUE]
             /\ submitCalls' = r
             /\ net' = [net EXCEPT ![r].submit = "pending",
                                   ![r].params = Some(JSONStringify(RunParams))]
             /\ last' = Step("run", r, TRUE)
             /\ UNCHANGED <<storeVars, stlArrayBuffer, canvasVars>>
             /\ cancelledFrom' = "none"
             /\ UNCHANGED <<stopStream, displayCalls, resultMesh>>

\* onRunOptimization up to its first await
OnRunOptimization ==
    IF ~canRun \/ stlArrayBuffer = Null
    THEN /\ last' = Step("run", 0, FALSE)
         /\ UNCHANGED <<storeVars, stlArrayBuffer, canvasVars, jobVars>>
    ELSE LET r == submitCalls + 1
         IN  /\ submitCalls < MaxRuns
             /\ optimization' = [resetOptimization EXCEPT !.isRunning = TRUE]
             /\ submitCalls' = r
             /\ net' = [net EXCEPT ![r].submit = "pending",
                                   ![r].params = Some(JSONStringify(RunParams))]
             /\ last' = Step("run", r, TRUE)
             /\ UNCHANGED <<storeVars, stlArrayBuffer, canvasVars>>
             /\ cancelledFrom' = "none"
             /\ UNCHANGED <<stopStream, displayCalls, resultMesh>>

\* submitOptimization of run r resolves with {job_id}: the rest of the try block
SubmitResolved(r, job_id) ==
    /\ net[r].submit = "pending"
    /\ optimization' = [optimization EXCEPT !.jobId = Some(job_id)]
    /\ net' = [net EXCEPT ![r].submit = "done", ![r].params = Null,
                          ![r].job_id = Some(job_id),
                          ![r].es = "open"]
    /\ stopStream' = Some(r)
    /\ last' = Step("submitResolved", r, TRUE)
    /\ UNCHANGED <<storeVars, stlArrayBuffer, canvasVars>>
    /\ UNCHANGED <<submitCalls, displayCalls, resultMesh, cancelledFrom>>

\* err instanceof Error ? err.message : 'Submit failed'
SubmitErrorMessage(err) == IF err.isError THEN err.message ELSE "Submit failed"

\* submitOptimization of run r rejects with err: the catch block
SubmitRejected(r, err) ==
    /\ net[r].submit = "pending"
    /\ optimization' = [optimization EXCEPT !.isRunning = FALSE,
                                            !.error = Some(SubmitErrorMessage(err))]
    /\ net' = [net EXCEPT ![r].submit = "done", ![r].params = Null]
    /\ last' = Step("submitRejected", r, TRUE)
    /\ UNCHANGED <<storeVars, stlArrayBuffer, canvasVars>>
    /\ UNCHANGED <<stopStream, submitCalls, displayCalls, resultMesh, cancelledFrom>>

\* es.onmessage with a progress object: onProgress(data)
StreamProgress(r, data) ==
    /\ net[r].es = "open"
    /\ optimization' = [optimization EXCEPT !.progress = Some(ToProgress(data))]
    /\ last' = [op |-> "progress", run |-> r, accepted |-> TRUE, from |-> JobState,
                data |-> data, replaced |-> optimization.progress]
    /\ UNCHANGED <<storeVars, stlArrayBuffer, canvasVars>>
    /\ UNCHANGED <<stopStream, net, submitCalls, displayCalls, resultMesh, cancelledFrom>>

\* es.onmessage with data that is not JSON: JSON.parse throws out of the
\* callback before any branch is taken; nothing catches it, the EventSource
\* stays open and the store is not touched
StreamMalformed(r) ==
    /\ net[r].es = "open"
    /\ last' = Step("malformed", r, FALSE)
    /\ UNCHANGED <<storeVars, stlArrayBuffer, canvasVars, jobVars>>

\* es.onmessage with {status: 'complete'}: es.close(), then onComplete up to
\* its await (fetchResult is called before the callback returns)
StreamComplete(r) ==
    /\ net[r].es = "open"
    /\ optimization' = [optimization EXCEPT !.isRunning = FALSE,
                                            !.isComplete = TRUE]
    /\ net' = [net EXCEPT ![r].es = "closed", ![r].fetch = "pending"]
    /\ last' = Step("complete", r, TRUE)
    /\ UNCHANGED <<storeVars, stlArrayBuffer, canvasVars>>
    /\ UNCHANGED <<stopStream, submitCalls, displayCalls, resultMesh, cancelledFrom>>

\* onError(msg)
onError(msg) ==
    optimization' = [optimization EXCEPT !.isRunning = FALSE, !.error = Some(msg)]

\* es.onmessage with {status: 'error', message}: es.close(), onError(...)
StreamError(r, message) ==
    /\ net[r].es = "open"
    /\ onError(IF message = "" THEN "Unknown error" ELSE message)
    /\ net' = [net EXCEPT ![r].es = "closed"]
    /\ last' = [op |-> "streamError", run |-> r, accepted |-> TRUE,
                from |-> JobState, message |-> message]
    /\ UNCHANGED <<storeVars, stlArrayBuffer, canvasVars>>
    /\ UNCHANGED <<stopStream, submitCalls, displayCalls, resultMesh, cancelledFrom>>

\* es.onerror: es.close(), onError('Connection lost')
StreamConnectionLost(r) ==
    /\ net[r].es = "open"
    /\ onError("Connection lost")
    /\ net' = [net EXCEPT ![r].es = "closed"]
    /\ last' = Step("connectionLost", r, TRUE)
    /\ UNCHANGED <<storeVars, stlArrayBuffer, canvasVars>>
    /\ UNCHANGED <<stopStream, submitCalls, displayCalls, resultMesh, cancelledFrom>>

\* fetchResult of run r resolves: canvasRef.value?.displayResult(resultBuffer)
FetchResolved(r, resultBuffer) ==
    /\ net[r].fetch = "pending"
    /\ net' = [net EXCEPT ![r].fetch = "done", ![r].result = Some(resultBuffer)]
    /\ displayCalls' = [displayCalls EXCEPT ![r] = Append(@, resultBuffer)]
    /\ resultMesh' = Some(resultBuffer)
    /\ last' = Step("fetchResolved", r, TRUE)
    /\ UNCHANGED <<storeVars, stlArrayBuffer, canvasVars>>
    /\ UNCHANGED <<optimization, stopStream, submitCalls, cancelledFrom>>

\* fetchResult of run r rejects: the catch block of onComplete
FetchRejected(r) ==
    /\ net[r].fetch = "pending"
    /\ net' = [net EXCEPT ![r].fetch = "done"]
    /\ optimization' = [optimization EXCEPT !.error = Some("Failed to fetch result")]
    /\ last' = Step("fetchRejected", r, TRUE)
    /\ UNCHANGED <<storeVars, stlArrayBuffer, canvasVars>>
    /\ UNCHANGED <<stopStream, submitCalls, displayCalls, resultMesh, cancelledFrom>>

\* the closure returned by streamProgress for run r: es.close()
CloseStream(r) ==
    [net EXCEPT ![r].es = IF @ = "open" THEN "closed" ELSE @]

\* the template shows the Cancel button (v-else of the Run button)
CancelShown == optimization.isRunning

\* onCancelOptimization, the handler as written: it tests nothing but stopStream
onCancelOptimization ==
    /\ net' = IF stopStream # Null THEN CloseStream(stopStream[1]) ELSE net
    /\ stopStream' = Null
    /\ optimization' = [optimization EXCEPT !.isRunning = FALSE,
                                            !.error = Some("Cancelled")]
    /\ cancelledFrom' = JobState
    /\ last' = Step("cancel", 0, TRUE)
    /\ UNCHANGED <<storeVars, stlArrayBuffer, canvasVars>>
    /\ UNCHANGED <<submitCalls, displayCalls, resultMesh>>

\* a click on the Cancel button
OnCancelOptimization ==
    /\ CancelShown
    /\ onCancelOptimization

\* the template shows the result controls, with the Clear Result button
ClearResultShown == optimization.isComplete

\* onClearResult: canvasRef.value?.clearResult(), store.resetOptimization()
onClearResult ==
    /\ resultMesh' = Null
    /\ optimization' = resetOptimization
    /\ cancelledFrom' = "none"
    /\ last' = Step("clearResult", 0, TRUE)
    /\ UNCHANGED <<storeVars, stlArrayBuffer, canvasVars>>
    /\ UNCHANGED <<stopStream, net, submitCalls, displayCalls>>

\* a click on the Clear Result button
OnClearResult ==
    /\ ClearResultShown
    /\ onClearResult

Next ==
    \/ \E m \in {"fixed", "load"} : SetMode(m)
    \/ \E mk \in {Null} \cup {Some(h) : h \in markerGroup},
          ms \in {Null} \cup {Some(h) : h \in SurfaceHits} : OnClick(mk, ms)
    \/ OnClearAll
    \/ \E f \in StlFiles : LoadSTL(f)
    \/ OnRunOptimization
    \/ \E r \in Runs : SubmitResolved(r, JobIdOf(r))
    \/ \E r \in Runs, m \in SubmitErrors : SubmitRejected(r, m)
    \/ \E r \in Runs, d \in ProgressEvents : StreamProgress(r, d)
    \/ \E r \in Runs : StreamMalformed(r)
    \/ \E r \in Runs : StreamComplete(r)
    \/ \E r \in Runs, m \in StreamMessages : StreamError(r, m)
    \/ \E r \in Runs : StreamConnectionLost(r)
    \/ \E r \in Runs, b \in ResultBytes : FetchResolved(r, b)
    \/ \E r \in Runs : FetchRejected(r)
    \/ OnCancelOptimization
    \/ OnClearResult

Spec == Init /\ [][Next]_vars

\* The network keeps its promises: a submit call and a result fetch are answered
\* or fail, and an open stream delivers a terminal event or loses its connection.
SubmitSettles(r) ==
    \/ SubmitResolved(r, JobIdOf(r))
    \/ \E m \in SubmitErrors : SubmitRejected(r, m)

StreamEnds(r) ==
    \/ StreamComplete(r)
    \/ \E m \in StreamMessages : StreamError(r, m)
    \/ StreamConnectionLost(r)

FetchSettles(r) ==
    \/ \E b \in ResultBytes : FetchResolved(r, b)
    \/ FetchRejected(r)

Fairness ==
    \A r \in Runs :
        /\ WF_vars(SubmitSettles(r))
        /\ WF_vars(StreamEnds(r))
        /\ WF_vars(FetchSettles(r))

SpecFair == Spec /\ Fairness

\* The handlers called as functions, in any state: onCancelOptimization and
\* onClearResult have no guard of their own, only the template's v-if keeps a
\* click from reaching them.
NextHandlers ==
    \/ Next
    \/ onCancelOptimization
    \/ onClearResult

SpecHandlers == Init /\ [][NextHandlers]_vars

\* the values the solver inputs of the panel may be set to
SolverConfigs ==
    {[volumeFraction |-> 30, solverParams |-> DefaultSolverParams],
     [volumeFraction |-> 50,
      solverParams |-> [nelx |-> 40, nely |-> 20, nelz |-> 8, penal |-> 4,
                        rmin |-> 1, maxIterations |-> 200]]}

\* the slider and the number inputs of the solver section (v-model.number)
SetSolverConfig(c) ==
    /\ volumeFraction' = c.volumeFraction
    /\ solverParams' = c.solverParams
    /\ last' = Step("setSolverConfig", 0, TRUE)
    /\ UNCHANGED <<mode, fixedSupports, loadVectors, nextId, issuedIds, stlArrayBuffer>>
    /\ UNCHANGED canvasVars
    /\ UNCHANGED jobVars

\* the handlers of Next and the solver inputs
NextConfig ==
    \/ Next
    \/ \E c \in SolverConfigs : SetSolverConfig(c)

SpecConfig == Init /\ [][NextConfig]_vars

\* ------------------------------------------- the store called on its own
\* the ids a caller may pass to removeMarker: issued or not
MarkerIds == {genId(n) : n \in 0..MaxMarkers}

CallAddFixedSupport(hit) ==
    /\ nextId < MaxMarkers
    /\ addFixedSupport(hit.point, hit.normal)
    /\ last' = Step("addFixedSupport", 0, TRUE)
    /\ UNCHANGED <<volumeFraction, solverParams, mode, stlArrayBuffer, canvasVars, jobVars>>

CallAddLoadVector(hit) ==
    /\ nextId < MaxMarkers
    /\ addLoadVector(hit.point, hit.normal, 1)
    /\ last' = Step("addLoadVector", 0, TRUE)
    /\ UNCHANGED <<volumeFraction, solverParams, mode, stlArrayBuffer, canvasVars, jobVars>>

CallRemoveMarker(id) ==
    LET lists == removeMarker(fixedSupports, loadVectors, id)
    IN  /\ fixedSupports' = lists[1]
        /\ loadVectors' = lists[2]
        /\ last' = [op |-> "removeMarker", run |-> 0, accepted |-> TRUE,
                    from |-> JobState, id |-> id,
                    found |-> (FindIndex(fixedSupports, id) # 0
                                  \/ FindIndex(loadVectors, id) # 0)]
        /\ UNCHANGED <<volumeFraction, solverParams, mode, nextId, issuedIds, stlArrayBuffer, canvasVars, jobVars>>

CallClearAll ==
    /\ clearAll
    /\ last' = Step("storeClearAll", 0, TRUE)
    /\ UNCHANGED <<volumeFraction, solverParams, mode, nextId, issuedIds, stlArrayBuffer, canvasVars, jobVars>>

NextStore ==
    \/ \E m \in {"fixed", "load"} : SetMode(m)
    \/ \E h \in SurfaceHits : CallAddFixedSupport(h)
    \/ \E h \in SurfaceHits : CallAddLoadVector(h)
    \/ \E id \in MarkerIds : CallRemoveMarker(id)
    \/ CallClearAll

SpecStore == Init /\ [][NextStore]_vars

\* ------------------------------------------------------------- properties
Settled == {"Idle", "Complete", "Error", "Cancelled"}
Active == {"Submitting", "Running"}
OpenStreams == {r \in Runs : net[r].es = "open"}

ListedTransitions ==
    {<<"Idle", "Submitting">>, <<"Submitting", "Running">>, <<"Submitting", "Error">>,
     <<"Running", "Complete">>, <<"Running", "Error">>, <<"Running", "Cancelled">>,
     <<"Complete", "Idle">>, <<"Error", "Idle">>, <<"Cancelled", "Idle">>}

\* C1: every change of the job state is one of the listed transitions (a run
\* accepted in Complete, Error or Cancelled counts as reset followed by submit).
C1_OnlyListedTransitions ==
    [][JobState' # JobState =>
          \/ <<JobState, JobState'>> \in ListedTransitions
          \/ /\ JobState \in {"Complete", "Error", "Cancelled"}
             /\ JobState' = "Submitting"
             /\ last'.op = "run"]_vars

\* C2: at most one progress stream (EventSource) is open at any time.
C2_AtMostOneSubscription == Cardinality(OpenStreams) <= 1

\* C3: while the job is Idle, Complete, Error or Cancelled no progress stream is open.
C3_SettledHasNoSubscription == JobState \in Settled => OpenStreams = {}

\* C4: a run request made while the job is Submitting or Running is rejected (no
\* submit call, the job and its calls untouched); a submit call is only ever
\* issued while no job is active.
C4_RunRejectedWhileActive ==
    [][/\ (last'.op = "run" /\ JobState \in Active) =>
              /\ ~last'.accepted
              /\ submitCalls' = submitCalls
              /\ net' = net
              /\ optimization' = optimization
       /\ submitCalls' # submitCalls => JobState \notin Active]_vars

\* a run request was just rejected only because a job is running
C4_Witness ==
    /\ last.op = "run"
    /\ ~last.accepted
    /\ JobState = "Running"
    /\ stlArrayBuffer # Null
    /\ Len(fixedSupports) > 0
    /\ Len(loadVectors) > 0

MissingInput ==
    \/ stlArrayBuffer = Null
    \/ Len(fixedSupports) = 0
    \/ Len(loadVectors) = 0

C6_CancelWhileRunning ==
    [][/\ (last'.op = "cancel" /\ JobState = "Running") =>
              /\ JobState' = "Cancelled"
              /\ optimization'.error = Some("Cancelled")
              /\ \A r \in Runs : net'[r].es # "open"
       /\ (cancelledFrom = "Running" /\ last'.op = "progress") =>
              optimization' = optimization]_vars

\* C7: when the result fetch that follows a 'complete' event fails, the job is in
\* Error (not Complete) with the message 'Failed to fetch result'.
C7_FetchFailureEndsInError ==
    last.op = "fetchRejected" =>
        /\ JobState = "Error"
        /\ optimization.error = Some("Failed to fetch result")

\* C8: the job becomes Complete only when the result fetch has succeeded, and
\* displayResult has then received exactly the fetched bytes, once, for that run.
C8_CompleteOnlyAfterFetch ==
    [][/\ (JobState' = "Complete" /\ JobState # "Complete") =>
              last'.op = "fetchResolved"
       /\ last'.op = "fetchResolved" =>
              displayCalls'[last'.run] = net'[last'.run].result]_vars

\* C9: a result fetch that resolves or rejects after a cancel or a reset took the
\* job out of Running is discarded: nothing is displayed, the job is unchanged.
C9_LateFetchDiscarded ==
    [][(last'.op \in {"fetchResolved", "fetchRejected"}
            /\ JobState \in {"Idle", "Cancelled"}) =>
          /\ optimization' = optimization
          /\ displayCalls' = displayCalls
          /\ resultMesh' = resultMesh]_vars

\* C10: when the submit call of a run succeeds the job records the returned id,
\* is Running without progress or error, and exactly one stream for that id is open.
C10_SubmitSuccessStartsRunning ==
    [][last'.op = "submitResolved" =>
          LET r == last'.run
          IN  /\ optimization'.jobId = Some(JobIdOf(r))
              /\ JobState' = "Running"
              /\ optimization'.progress = Null
              /\ optimization'.error = Null
              /\ net'[r].es = "open"
              /\ Cardinality({q \in Runs : /\ net'[q].es # "none"
                                            /\ net'[q].job_id = Some(JobIdOf(r))}) = 1]_vars

\* the messages a failed submit call can leave in store.optimization.error
SubmitFailureMessages == {SubmitErrorMessage(err) : err \in SubmitErrors}

\* C11: when the submit call of a run fails, the job is in Error with the
\* failure message, no job id is recorded and no progress subscription has
\* been opened for the run.
C11_SubmitFailureEndsInError ==
    [][last'.op = "submitRejected" =>
           /\ JobState' = "Error"
           /\ optimization'.error \in {Some(m) : m \in SubmitFailureMessages}
           /\ optimization'.jobId = Null
           /\ net'[last'.run].es = "none"
           /\ stopStream' = stopStream]_vars

\* the snapshot that holds exactly the fields of a delivered progress event
DeliveredSnapshot(d) ==
    [iteration |-> d.iteration, maxIterations |-> d.max_iterations,
     objective |-> d.objective, volumeFraction |-> d.volume_fraction,
     change |-> d.change, elapsedSeconds |-> d.elapsed_seconds]

\* C12: a progress event received while the job is Running replaces the stored
\* snapshot with exactly the delivered fields, whatever snapshot was stored,
\* and leaves the job Running with its id and error as they were.
C12_ProgressReplacesSnapshot ==
    [][(last'.op = "progress" /\ JobState = "Running") =>
           /\ optimization' =
                  [optimization EXCEPT
                       !.progress = Some(DeliveredSnapshot(last'.data))]
           /\ JobState' = "Running"]_vars

\* a Running job that held a snapshot has just received a different one
C12_Witness ==
    /\ last.op = "progress"
    /\ last.from = "Running"
    /\ last.replaced # Null
    /\ last.replaced # Some(DeliveredSnapshot(last.data))
    /\ optimization.progress = Some(DeliveredSnapshot(last.data))
    /\ JobState = "Running"

\* the callbacks of an EventSource
StreamEvents == {"progress", "complete", "streamError", "connectionLost"}
StreamFailures == {"streamError", "connectionLost"}

\* C13: an 'error' event moves a Running job to Error with the event's
\* message ('Unknown error' when it has none), a connection failure moves it
\* to Error with 'Connection lost'; the subscription is closed, and a stream
\* event that follows does not change the job.
C13_StreamFailureEndsTheJob ==
    [][/\ (last'.op \in StreamFailures /\ JobState = "Running") =>
              /\ JobState' = "Error"
              /\ optimization'.error =
                     IF last'.op = "connectionLost" THEN Some("Connection lost")
                     ELSE IF last'.message = "" THEN Some("Unknown error")
                     ELSE Some(last'.message)
              /\ net'[last'.run].es = "closed"
       /\ (/\ last.op \in StreamFailures
           /\ last.from = "Running"
           /\ last'.op \in StreamEvents) => optimization' = optimization]_vars

C15_ResetClearsTheJob ==
    [][/\ last'.op = "clearResult" =>
              /\ optimization' =
                     [isRunning |-> FALSE, isComplete |-> FALSE, jobId |-> Null,
                      progress |-> Null, error |-> Null]
              /\ JobState' = "Idle"
       /\ (last'.op = "run" /\ last'.accepted) =>
              /\ JobState' = "Submitting"
              /\ ~optimization'.isComplete
              /\ optimization'.jobId = Null
              /\ optimization'.progress = Null
              /\ optimization'.error = Null]_vars

\* a run has just been accepted on a job that had ended in Error
C15_Witness ==
    /\ last.op = "run"
    /\ last.accepted
    /\ last.from = "Error"
    /\ JobState = "Submitting"
    /\ optimization.error = Null

\* C16: after 'clear all' and after a mesh load the job is Idle, with no id,
\* no progress and no error.
C16_ClearAndLoadResetTheJob ==
    last.op \in {"clearAll", "loadSTL"} =>
        /\ JobState = "Idle"
        /\ optimization.jobId = Null
        /\ optimization.progress = Null
        /\ optimization.error = Null

PendingSubmits == {r \in Runs : net[r].submit = "pending"}
PendingFetches == {r \in Runs : net[r].fetch = "pending"}

\* C17: at most one submit call, at most one result fetch and at most one
\* stream are outstanding, and all of them belong to one run.
C17_OneCallOutstanding ==
    /\ Cardinality(PendingSubmits) <= 1
    /\ Cardinality(PendingFetches) <= 1
    /\ Cardinality(OpenStreams) <= 1
    /\ Cardinality(PendingSubmits \cup PendingFetches \cup OpenStreams) <= 1

\* the steps in which a submit call, a stream or a result fetch fails
Failures ==
    {"submitRejected", "streamError", "connectionLost", "malformed", "fetchRejected"}

\* C18: after every failure of the submit call, of the stream (error event,
\* connection failure, malformed message) and of the result fetch, the failure
\* has been handled and the job is in Error with a message.
C18_EveryFailureEndsInError ==
    last.op \in Failures =>
        /\ last.accepted
        /\ JobState = "Error"
        /\ optimization.error # Null

\* the ids of the markers in the store
LiveIds ==
    {fixedSupports[i].id : i \in 1..Len(fixedSupports)}
        \cup {loadVectors[i].id : i \in 1..Len(loadVectors)}

\* C19: markerObjects binds exactly the live markers: its keys are the ids in
\* fixedSupports and loadVectors (no two markers share an id), every key maps
\* to a handle tagged with that id, and markerGroup holds exactly these handles.
C19_MarkerBijection ==
    /\ DOMAIN markerObjects = LiveIds
    /\ Cardinality(LiveIds) = Len(fixedSupports) + Len(loadVectors)
    /\ \A k \in DOMAIN markerObjects : markerObjects[k].markerId = k
    /\ markerGroup = {markerObjects[k] : k \in DOMAIN markerObjects}
    /\ Cardinality(markerGroup) = Cardinality(DOMAIN markerObjects)

\* a click on one of two markers has removed it and left the other bound
C19_Witness ==
    /\ last.op = "clickMarker"
    /\ nextId = 2
    /\ Cardinality(LiveIds) = 1
    /\ DOMAIN markerObjects = LiveIds
    /\ Cardinality(markerGroup) = 1

\* the number in the id `marker-N`
IdNumber(id) == id[2]

\* C20: the ids issued by genId are pairwise distinct and their numbers
\* strictly increase in the order of issue, across both kinds of marker and
\* across removals and clearAll; every live marker carries an issued id.
C20_IdsDistinctAndIncreasing ==
    /\ \A i, j \in 1..Len(issuedIds) :
           i < j => /\ issuedIds[i] # issuedIds[j]
                    /\ IdNumber(issuedIds[i]) < IdNumber(issuedIds[j])
    /\ LiveIds \subseteq {issuedIds[i] : i \in 1..Len(issuedIds)}

\* a second id has been issued after the first marker was removed or cleared
C20_Witness ==
    /\ Len(issuedIds) = 2
    /\ last.op = "clickSurface"
    /\ LiveIds = {issuedIds[2]}
    /\ issuedIds[1] # issuedIds[2]

Clicks == {"clickMarker", "clickSurface", "clickNothing"}

\* C21: a click whose ray meets a marker removes that marker, the closest one,
\* and creates nothing, whether or not the ray also meets the mesh; a marker
\* is created only by a click that meets no marker; a click that meets
\* neither changes nothing.
C21_MarkerHitHasPriority ==
    [][last'.op \in Clicks =>
           /\ last'.markerHits # Null =>
                  /\ markerGroup' = markerGroup \ {last'.markerHits[1]}
                  /\ markerGroup' # markerGroup
                  /\ LiveIds' = LiveIds \ {last'.markerHits[1].markerId}
                  /\ LiveIds' # LiveIds
                  /\ nextId' = nextId
           /\ nextId' # nextId => last'.markerHits = Null
           /\ (last'.markerHits = Null /\ last'.meshHits = Null) =>
                  /\ storeVars' = storeVars
                  /\ canvasVars' = canvasVars]_vars

\* the ray of a click met a marker and the mesh: the marker is gone and no
\* marker was created
C21_Witness ==
    /\ last.op = "clickMarker"
    /\ last.markerHits # Null
    /\ last.meshHits # Null
    /\ last.markerHits[1] \notin markerGroup
    /\ last.markerHits[1].markerId \notin LiveIds

\* a click on the loaded mesh whose ray meets no marker
SurfaceClick(step) ==
    /\ step.op \in Clicks
    /\ step.markerHits = Null
    /\ step.meshHits # Null

\* C22: a surface click creates exactly one marker, of the kind of the current
\* mode (fixed: a fixed support with the hit point and normal; load: a load
\* vector with the hit point, the normal as direction and magnitude 1), and
\* binds exactly one handle, tagged with the new id, under that id.
C22_SurfaceClickCreatesOneMarker ==
    [][(SurfaceClick(last') /\ loadedMesh # Null) =>
           /\ Cardinality(LiveIds' \ LiveIds) = 1
           /\ LiveIds \subseteq LiveIds'
           /\ LET id == CHOOSE x \in LiveIds' \ LiveIds : TRUE
                  hit == last'.meshHits[1]
              IN  /\ IF mode = "fixed"
                     THEN /\ fixedSupports' =
                                 Append(fixedSupports,
                                        [id |-> id, position |-> hit.point,
                                         normal |-> hit.normal])
                          /\ loadVectors' = loadVectors
                     ELSE /\ loadVectors' =
                                 Append(loadVectors,
                                        [id |-> id, position |-> hit.point,
                                         direction |-> hit.normal, magnitude |-> 1])
                          /\ fixedSupports' = fixedSupports
                  /\ id \notin DOMAIN markerObjects
                  /\ DOMAIN markerObjects' = DOMAIN markerObjects \cup {id}
                  /\ \A k \in DOMAIN markerObjects : markerObjects'[k] = markerObjects[k]
                  /\ markerObjects'[id].markerId = id
                  /\ markerObjects'[id].glyph =
                         IF mode = "fixed" THEN "tentacle" ELSE "voidEye"
                  /\ markerObjects'[id] \notin markerGroup
                  /\ markerGroup' = markerGroup \cup {markerObjects'[id]}]_vars

\* a surface click in load mode has added a load vector beside a fixed support
C22_Witness ==
    /\ SurfaceClick(last)
    /\ last.op = "clickSurface"
    /\ mode = "load"
    /\ Len(fixedSupports) = 1
    /\ Len(loadVectors) = 1
    /\ loadVectors[1].direction = last.meshHits[1].normal
    /\ loadVectors[1].magnitude = 1
    /\ loadVectors[1].id \in DOMAIN markerObjects

\* a click whose ray meets a marker
MarkerClick(step) ==
    /\ step.op \in Clicks
    /\ step.markerHits # Null

\* the list without the markers of the id, the others in their order
WithoutId(list, id) == SelectSeq(list, LAMBDA m : m.id # id)

\* C23: a marker click removes the owning marker from the store (and no
\* other), takes its handle out of the marker group, disposes it and deletes
\* its entry of markerObjects, all in the one step.
C23_MarkerClickRemovesMarker ==
    [][MarkerClick(last') =>
           LET obj == last'.markerHits[1]
               id == obj.markerId
           IN  /\ id \in LiveIds
               /\ fixedSupports' = WithoutId(fixedSupports, id)
               /\ loadVectors' = WithoutId(loadVectors, id)
               /\ Len(fixedSupports') + Len(loadVectors') =
                      Len(fixedSupports) + Len(loadVectors) - 1
               /\ obj \in markerGroup
               /\ markerGroup' = markerGroup \ {obj}
               /\ id \notin disposed
               /\ disposed' = disposed \cup {id}
               /\ id \in DOMAIN markerObjects
               /\ DOMAIN markerObjects' = (DOMAIN markerObjects) \ {id}
               /\ \A k \in DOMAIN markerObjects' : markerObjects'[k] = markerObjects[k]]_vars

\* a marker click has removed one of two markers and disposed its handle
C23_Witness ==
    /\ MarkerClick(last)
    /\ last.markerHits[1].markerId \in disposed
    /\ last.markerHits[1].markerId \notin LiveIds
    /\ last.markerHits[1].markerId \notin DOMAIN markerObjects
    /\ last.markerHits[1] \notin markerGroup
    /\ Cardinality(LiveIds) = 1

\* the steps that call clearMarkers()
Clears == {"clearAll", "loadSTL"}

\* C24: after clearMarkers() both marker lists are empty, markerObjects has no
\* entry, every handle that was bound has been disposed and is out of the
\* marker group, and the id counter is what it was.
C24_ClearMarkersEmptiesAll ==
    [][last'.op \in Clears =>
           /\ fixedSupports' = <<>>
           /\ loadVectors' = <<>>
           /\ DOMAIN markerObjects' = {}
           /\ \A k \in DOMAIN markerObjects :
                  /\ markerObjects[k] \notin markerGroup'
                  /\ markerObjects[k].markerId \in disposed'
           /\ markerGroup' = {}
           /\ nextId' = nextId
           /\ issuedIds' = issuedIds]_vars

\* Clear All has just removed two markers; the counter still stands at 2
C24_Witness ==
    /\ last.op = "clearAll"
    /\ nextId = 2
    /\ Cardinality(disposed) = 2
    /\ LiveIds = {}
    /\ DOMAIN markerObjects = {}
    /\ markerGroup = {}

\* C25: every live marker, every entry of markerObjects and every handle in
\* the marker group was placed on the mesh now loaded: none of those a mesh
\* load found has survived it.
C25_MarkersBelongToLoadedMesh ==
    /\ LiveIds \subseteq placed
    /\ DOMAIN markerObjects \subseteq placed
    /\ {h.markerId : h \in markerGroup} \subseteq placed
    /\ last.op = "loadSTL" =>
           /\ LiveIds \cap last.found = {}
           /\ (DOMAIN markerObjects) \cap last.found = {}
           /\ {h.markerId : h \in markerGroup} \cap last.found = {}

\* a mesh load has found two markers of the previous mesh and left none
C25_Witness ==
    /\ last.op = "loadSTL"
    /\ Cardinality(last.found) = 2
    /\ LiveIds = {}
    /\ DOMAIN markerObjects = {}
    /\ markerGroup = {}
    /\ loadedMesh # Null

\* C26: removeMarker(id) with an id that is not live (never issued, removed
\* or cleared) leaves both lists as they are; removeMarker(id) takes away at
\* most the one marker of that id, and a second removeMarker(id) changes
\* nothing more.
C26_RemoveMarkerIdempotent ==
    [][last'.op = "removeMarker" =>
           /\ last'.id \notin LiveIds =>
                  /\ fixedSupports' = fixedSupports
                  /\ loadVectors' = loadVectors
           /\ fixedSupports' = WithoutId(fixedSupports, last'.id)
           /\ loadVectors' = WithoutId(loadVectors, last'.id)
           /\ (last.op = "removeMarker" /\ last.id = last'.id) =>
                  /\ fixedSupports' = fixedSupports
                  /\ loadVectors' = loadVectors]_vars

\* removeMarker has just been called with an issued id that is no longer
\* live, while another marker is: a second removal, or one after clearAll
C26_Witness ==
    /\ last.op = "removeMarker"
    /\ ~last.found
    /\ last.id \in {issuedIds[i] : i \in 1..Len(issuedIds)}
    /\ last.id \notin LiveIds
    /\ LiveIds # {}

\* the steps of the job: the handlers of App.vue and the callbacks of its calls
JobSteps ==
    {"run", "submitResolved", "submitRejected", "progress", "complete",
     "streamError", "connectionLost", "malformed", "fetchResolved",
     "fetchRejected", "cancel", "clearResult"}

\* C28: no step of the job adds, removes or changes a marker, a binding or a
\* handle of the marker group, and no click on the canvas changes the job.
C28_OwnershipFrame ==
    [][/\ last'.op \in JobSteps =>
              /\ fixedSupports' = fixedSupports
              /\ loadVectors' = loadVectors
              /\ nextId' = nextId
              /\ markerObjects' = markerObjects
              /\ markerGroup' = markerGroup
              /\ disposed' = disposed
       /\ last'.op \in Clicks => optimization' = optimization]_vars

\* a marker click has removed a marker while the job is Running with a
\* progress snapshot, and the job is as it was
C28_Witness ==
    /\ last.op = "clickMarker"
    /\ last.from = "Running"
    /\ JobState = "Running"
    /\ optimization.progress # Null
    /\ optimization.jobId # Null
    /\ Cardinality(LiveIds) = 1

\* the callbacks that deliver the outcome of a result fetch
FetchOutcomes == {"fetchResolved", "fetchRejected"}

\* the latest cancel found the job Submitting and no run has been accepted since
CancelledWhileSubmitting ==
    /\ cancelledFrom = "Submitting"
    /\ JobState = "Cancelled"

\* C29: when the job was cancelled while its submit call was in flight, the
\* submit response that arrives later leaves the job Cancelled and as it was
\* and opens no progress stream, and no stream event or fetch outcome changes
\* the job afterwards.
C29_CancelDuringSubmit ==
    [][/\ (CancelledWhileSubmitting /\ last'.op = "submitResolved") =>
              /\ JobState' = "Cancelled"
              /\ optimization' = optimization
              /\ OpenStreams' = {}
              /\ stopStream' = Null
       /\ (CancelledWhileSubmitting
              /\ last'.op \in StreamEvents \cup FetchOutcomes) =>
              optimization' = optimization]_vars

\* the callbacks of the calls a run makes
RunCallbacks ==
    {"submitResolved", "submitRejected"} \cup StreamEvents \cup {"malformed"}
        \cup FetchOutcomes

\* C30: a callback of a run earlier than the latest accepted one changes
\* neither the id, state, progress or error of the job nor what the renderer
\* shows as result.
C30_StaleCallbacksIgnored ==
    [][(last'.op \in RunCallbacks /\ last'.run < submitCalls) =>
           /\ optimization' = optimization
           /\ displayCalls' = displayCalls
           /\ resultMesh' = resultMesh]_vars

\* C31: whenever a progress stream is open the job is Running, the stream is
\* the one of the job id recorded in the job, it is the only open stream and
\* stopStream is its closure.
C31_OpenStreamIsTheJobs ==
    \A r \in OpenStreams :
        /\ JobState = "Running"
        /\ net[r].job_id = optimization.jobId
        /\ OpenStreams = {r}
        /\ stopStream = Some(r)

\* the params a submit call was made with, read back from the text sent
SentParams(r) == net[r].params[1].json

\* the three components of v are those of the vector w
SameVector(v, w) == v.x = <<w, "x">> /\ v.y = <<w, "y">> /\ v.z = <<w, "z">>

C33_FieldsDecodeToOneState ==
    /\ ~(optimization.isRunning /\ optimization.isComplete)
    /\ optimization.isComplete => optimization.error = Null

\* C34: when the network keeps its promises, a job that is Submitting or
\* Running eventually is Complete, Error or Cancelled: every accepted run ends
\* in one of the three and the job never stays Submitting or Running forever.
C34_EveryRunEnds ==
    (JobState \in Active) ~> (JobState \in {"Complete", "Error", "Cancelled"})

\* the weaker half: the job does not stay Submitting or Running forever
C34_NeverActiveForever ==
    (JobState \in Active) ~> (JobState \notin Active)

\* C35: a click changes the marker set by at most one marker: it removes exactly
\* one live marker, or creates exactly one marker with a fresh id, or leaves
\* both lists as they were; a click that removes a marker creates none, also
\* when its ray meets the mesh behind the marker.
C35_ClickChangesAtMostOneMarker ==
    [][last'.op \in Clicks =>
           LET removed == LiveIds \ LiveIds'
               created == LiveIds' \ LiveIds
               count == Len(fixedSupports) + Len(loadVectors)
               count1 == Len(fixedSupports') + Len(loadVectors')
           IN  /\ \/ /\ Cardinality(removed) = 1
                        /\ created = {}
                        /\ count1 = count - 1
                        /\ nextId' = nextId
                     \/ /\ removed = {}
                        /\ Cardinality(created) = 1
                        /\ count1 = count + 1
                        /\ created = {genId(nextId)}
                     \/ /\ fixedSupports' = fixedSupports
                        /\ loadVectors' = loadVectors
                        /\ nextId' = nextId
               /\ (last'.markerHits # Null /\ loadedMesh # Null) =>
                      /\ removed = {last'.markerHits[1].markerId}
                      /\ created = {}
                      /\ nextId' = nextId]_vars

\* a click whose ray met the only marker and the mesh behind it took the
\* marker away and created none, with an id still to be issued
C35_Witness ==
    /\ last.op = "clickMarker"
    /\ last.markerHits # Null
    /\ last.meshHits # Null
    /\ Cardinality(LiveIds) = 0
    /\ nextId = 1
    /\ Len(issuedIds) = 1

\* C36: while no base mesh is loaded no marker exists: loadedMesh = null
\* implies that both marker lists, the binding table and the marker group are
\* empty.
C36_NoMarkerWithoutMesh ==
    loadedMesh = Null =>
        /\ fixedSupports = <<>>
        /\ loadVectors = <<>>
        /\ DOMAIN markerObjects = {}
        /\ markerGroup = {}

\* a click was made, and ignored, while no mesh was loaded
C36_Witness ==
    /\ loadedMesh = Null
    /\ last.op = "clickNothing"
    /\ last.meshHits # Null
    /\ nextId = 0

\* list1 is list with its i-th element taken out and the others where they were
DeletedAt(list, list1, i) ==
    /\ Len(list1) = Len(list) - 1
    /\ \A j \in 1..Len(list1) : list1[j] = IF j < i THEN list[j] ELSE list[j + 1]

VisitedBefore(id) ==
    {k \in DOMAIN markerObjects : IdNumber(k) < IdNumber(id)}

\* onBeforeUnmount: markerObjects.forEach(disposeObject), markerObjects.clear().
\* failing is Null when every disposeObject call returns, Some(id) when the
\* call for the handle of id is the first to throw: the exception leaves
\* forEach and the hook, the entries after it are not visited and the map is
\* not cleared.
OnBeforeUnmount(failing) ==
    /\ IF failing = Null
       THEN /\ disposed' = disposed \cup {markerObjects[k].markerId : k \in DOMAIN markerObjects}
            /\ markerObjects' = <<>>
       ELSE /\ disposed' = disposed \cup
                               {markerObjects[k].markerId : k \in VisitedBefore(failing[1])}
            /\ markerObjects' = markerObjects
    /\ last' = [op |-> "unmount", run |-> 0, accepted |-> (failing = Null),
                from |-> JobState, found |-> DOMAIN markerObjects]
    /\ UNCHANGED <<storeVars, stlArrayBuffer, markerGroup, loadedMesh, placed, jobVars>>

\* the view is mounted until onBeforeUnmount has run; its listeners are
\* removed first, so no click follows
Mounted == last.op # "unmount"

NextTeardown ==
    \/ Mounted /\ Next
    \/ /\ Mounted
       /\ \E failing \in {Null} \cup {Some(k) : k \in DOMAIN markerObjects} :
              OnBeforeUnmount(failing)

SpecTeardown == Init /\ [][NextTeardown]_vars

\* C27: after the teardown of the view every handle that was bound has been
\* disposed and markerObjects is empty, whichever disposeObject calls failed,
\* and no exception has left the teardown.
C27_TeardownReleasesEveryHandle ==
    last.op = "unmount" =>
        /\ last.accepted
        /\ last.found \subseteq disposed
        /\ DOMAIN markerObjects = {}
====
